---- MODULE Spec2Model ----
(***************************************************************************)
(* W3U-Basic-Navigator (src/w3u_navigator.py).                             *)
(*                                                                         *)
(* Text is a sequence of characters, each character a TLA+ string.  The    *)
(* characters that have no printable form are named: "LF" is 0x0A (both    *)
(* whitespace and a control character), "NUL" is 0x00 (a control character *)
(* that is not whitespace) and "DEL" is 0x7F.                              *)
(***************************************************************************)
EXTENDS Integers, Sequences, FiniteSets, TLC

VARIABLES
    status,        \* "init", "running", "ended" (the main call returned) or "crashed"
    stack,         \* the live navigate_w3u frames, outermost first
    history,       \* the history list every frame shares
    cache,         \* the cache files of the working directory, by file name
    options,       \* the options of the last render
    option_index,  \* the option counter of the last render
    selected,      \* the option the last numeral chose (line 173)
    trace,         \* what the last handler did: fetches, launches, prompts, file writes
    ld_prev,       \* the load before the last one
    ld_last,       \* the last fetch_w3u call: its url, response, result
    san_x,         \* Sanitizer runs: the input text
    san_y,         \* clean_json(san_x), once computed
    san_z,         \* clean_json(san_y), once computed
    san_n,         \* how many times clean_json has been applied to san_x
    cls_url,       \* Classifier runs: the selected url
    cls_once,      \* the url after one alias rewrite
    cls_twice,     \* the url after two alias rewrites
    cls_n,         \* how many rewrites have been applied
    cls_calls      \* the calls the dispatch of cls_url makes

vars == <<status, stack, history, cache, options, option_index, selected, trace, ld_prev, ld_last,
          san_x, san_y, san_z, san_n, cls_url, cls_once, cls_twice, cls_n, cls_calls>>

navVars == <<status, stack, history, cache, options, option_index, selected, trace, ld_prev, ld_last>>
sanVars == <<san_x, san_y, san_z, san_n>>
clsVars == <<cls_url, cls_once, cls_twice, cls_n, cls_calls>>

----------------------------------------------------------------------------
(* Characters and strings                                                  *)

\* re's \s on the characters of the model
IsSpace(c) == c \in {" ", "LF"}

\* [\x00-\x1F\x7F]
IsControl(c) == c \in {"LF", "NUL", "DEL"}

UpperCase == <<"A","B","C","D","E","F","G","H","I","J","K","L","M",
               "N","O","P","Q","R","S","T","U","V","W","X","Y","Z">>
LowerCase == <<"a","b","c","d","e","f","g","h","i","j","k","l","m",
               "n","o","p","q","r","s","t","u","v","w","x","y","z">>
Letters == {UpperCase[i] : i \in DOMAIN UpperCase} \cup {LowerCase[i] : i \in DOMAIN LowerCase}
Digits == {"0","1","2","3","4","5","6","7","8","9"}

\* str.lower
LowerChar(c) ==
    IF \E i \in DOMAIN UpperCase : UpperCase[i] = c
    THEN LowerCase[CHOOSE i \in DOMAIN UpperCase : UpperCase[i] = c]
    ELSE c
Lower(s) == [i \in DOMAIN s |-> LowerChar(s[i])]

\* s[i:] with i counted from 1
From(s, i) == SubSeq(s, i, Len(s))

\* s.startswith(p), s.endswith(p), p in s
StartsWith(s, p) == Len(p) <= Len(s) /\ SubSeq(s, 1, Len(p)) = p
EndsWith(s, p) == Len(p) <= Len(s) /\ SubSeq(s, Len(s) - Len(p) + 1, Len(s)) = p
Contains(s, p) == \E i \in 1..(Len(s) - Len(p) + 1) : SubSeq(s, i, i + Len(p) - 1) = p

\* s.find(p) counted from 1, 0 when p does not occur
Find(s, p) ==
    IF Contains(s, p)
    THEN CHOOSE i \in 1..(Len(s) - Len(p) + 1) :
            /\ SubSeq(s, i, i + Len(p) - 1) = p
            /\ \A j \in 1..(i - 1) : SubSeq(s, j, j + Len(p) - 1) # p
    ELSE 0

\* s.replace(old, new): every non-overlapping occurrence, left to right
RECURSIVE Replace(_, _, _)
Replace(s, old, new) ==
    LET i == Find(s, old) IN
    IF i = 0 THEN s
    ELSE SubSeq(s, 1, i - 1) \o new \o Replace(From(s, i + Len(old)), old, new)

\* the least index from i on whose character is in cs, Len(s) + 1 when there is none
FirstOf(s, cs, i) ==
    IF \E j \in i..Len(s) : s[j] \in cs
    THEN CHOOSE j \in i..Len(s) : s[j] \in cs /\ \A k \in i..(j - 1) : s[k] \notin cs
    ELSE Len(s) + 1

\* the greatest index up to i whose character is in cs, 0 when there is none
LastOf(s, cs, i) ==
    IF \E d \in 0..(i - 1) : s[i - d] \in cs
    THEN i - (CHOOSE d \in 0..(i - 1) : s[i - d] \in cs /\ \A e \in 0..(d - 1) : s[i - e] \notin cs)
    ELSE 0

\* the least index from i on, and the greatest index up to i, whose character is
\* not in cs
FirstNotOf(s, cs, i) ==
    IF \E j \in i..Len(s) : s[j] \notin cs
    THEN CHOOSE j \in i..Len(s) : s[j] \notin cs /\ \A k \in i..(j - 1) : s[k] \in cs
    ELSE Len(s) + 1
LastNotOf(s, cs, i) ==
    IF \E d \in 0..(i - 1) : s[i - d] \notin cs
    THEN i - (CHOOSE d \in 0..(i - 1) : s[i - d] \notin cs /\ \A e \in 0..(d - 1) : s[i - e] \in cs)
    ELSE 0

\* s.strip() on the characters of the model
Strip(s) == SubSeq(s, FirstNotOf(s, {" ", "LF"}, 1), LastNotOf(s, {" ", "LF"}, Len(s)))

----------------------------------------------------------------------------
(* clean_json: CleanJson is the function, clean_json (below) the same     *)
(* function read from a table for the texts of the web                     *)

\* ,\s*[}\]] matches at k
TrailingCommaAt(s, k) ==
    /\ k >= 1
    /\ s[k] = ","
    /\ LET j == FirstNotOf(s, {" ", "LF"}, k + 1) IN j <= Len(s) /\ s[j] \in {"}", "]"}

\* re.sub(r',\s*([}\]])', r'\1', content): a match starts at every comma that
\* whitespace and a closing bracket follow; the comma and the whitespace go, the
\* bracket stays
RemoveTrailingCommas(s) ==
    LET gone(i) == TrailingCommaAt(s, IF IsSpace(s[i]) THEN LastNotOf(s, {" ", "LF"}, i) ELSE i)
        kept == SelectSeq([i \in 1..Len(s) |-> i], LAMBDA i : ~gone(i))
    IN [n \in 1..Len(kept) |-> s[kept[n]]]

\* re.sub(r'[\x00-\x1F\x7F]', '', content)
StripControl(s) == SelectSeq(s, LAMBDA c : ~IsControl(c))

CleanJson(content) == StripControl(RemoveTrailingCommas(content))

----------------------------------------------------------------------------
(* json.loads and json.dump                                                *)
(*                                                                         *)
(* A parsed value is a record [t, s, items]: t is its Python type, s the   *)
(* characters of a str or an int, items the entries of a dict (key k,      *)
(* value v) or of a list (k empty).  NoneValue is Python's None.           *)

NoneValue == [t |-> "none", s |-> <<>>, items |-> <<>>]
StrValue(s) == [t |-> "str", s |-> s, items |-> <<>>]
IntValue(s) == [t |-> "int", s |-> s, items |-> <<>>]
ListValue(vs) == [t |-> "list", s |-> <<>>, items |-> [i \in DOMAIN vs |-> [k |-> <<>>, v |-> vs[i]]]]
DictValue(kvs) == [t |-> "dict", s |-> <<>>, items |-> kvs]

Entry(k, v) == [k |-> k, v |-> v]

\* one entry of options: the tuple (selected, parent_group) of lines 129-154
Option(entry, parent_group) == [selected |-> entry, parent_group |-> parent_group]

\* no option chosen
NoOption == Option(NoneValue, NoneValue)

\* the values of a list, in order
Elements(l) == [i \in DOMAIN l.items |-> l.items[i].v]

\* d.get(key, default); a value that is not a dict has no get
Get(d, key, default) ==
    IF \E i \in DOMAIN d.items : d.items[i].k = key
    THEN d.items[CHOOSE i \in DOMAIN d.items : d.items[i].k = key].v
    ELSE default

\* d[key] = v: a key keeps the place of its first insertion
SetItem(kvs, key, v) ==
    IF \E i \in DOMAIN kvs : kvs[i].k = key
    THEN [i \in DOMAIN kvs |-> IF kvs[i].k = key THEN Entry(key, v) ELSE kvs[i]]
    ELSE Append(kvs, Entry(key, v))

\* bool(v)
Truthy(v) ==
    CASE v.t = "none" -> FALSE
      [] v.t = "str" -> v.s # <<>>
      [] v.t = "int" -> v.s # <<"0">>
      [] OTHER -> v.items # <<>>

\* the result of a parse step: the value and the index after it
Parsed(v, pos) == [ok |-> TRUE, v |-> v, pos |-> pos]
ParseError == [ok |-> FALSE, v |-> NoneValue, pos |-> 0]

\* the whitespace json skips between tokens
SkipJsonSpace(s, i) == FirstNotOf(s, {" ", "LF"}, i)

\* \uXXXX escapes of the characters of the model
UnicodeEscape(c) ==
    CASE c = "NUL" -> <<"0","0","0","0">>
      [] c = "LF" -> <<"0","0","0","a">>
      [] c = "," -> <<"0","0","2","c">>
      [] c = "DEL" -> <<"0","0","7","f">>
      [] OTHER -> <<>>

\* what a position of a string literal stands for when it is not a character of
\* the string: the inside of an escape, or an error
Inside == ""
Bad == "BAD"

\* the character the escape at p stands for, the string ending before index e
Unescape(s, p, e) ==
    IF s[p + 1] \in {"\"", "\\", "/"} THEN s[p + 1]
    ELSE IF s[p + 1] = "n" THEN "LF"
    ELSE IF s[p + 1] = "u" /\ p + 5 < e
              /\ \E c \in {"NUL", "LF", ",", "DEL"} : UnicodeEscape(c) = Lower(SubSeq(s, p + 2, p + 5))
         THEN CHOOSE c \in {"NUL", "LF", ",", "DEL"} : UnicodeEscape(c) = Lower(SubSeq(s, p + 2, p + 5))
    ELSE Bad

\* p holds a backslash that starts an escape of the string that starts at i: an
\* even number of backslashes of the string precede it; b is the index before the
\* run of backslashes that ends at p
EscapesFrom(i, p, b) == b < p /\ (p - b) % 2 = 1 /\ b >= i - 1
Escapes(s, i, p) == p >= i /\ EscapesFrom(i, p, LastNotOf(s, {"\\"}, p))

\* j holds the quote that ends the string that starts at i, if no quote before does
Closes(s, i, j) == s[j] = "\"" /\ ~Escapes(s, i, j - 1)

\* the index of the closing quote of the string that starts at i, 0 without one
StringEnd(s, i) ==
    IF \E j \in i..Len(s) : Closes(s, i, j)
    THEN CHOOSE j \in i..Len(s) : Closes(s, i, j) /\ \A k \in i..(j - 1) : ~Closes(s, i, k)
    ELSE 0

\* p is inside an escape of the string that starts at i: after its backslash, or
\* one of the four digits of a \u escape
InsideEscape(s, i, p) ==
    \E d \in 1..5 : /\ Escapes(s, i, p - d)
                    /\ (d = 1 \/ s[p - d + 1] = "u")

\* what index p of the string that starts at i and ends before e stands for
StringChar(s, i, e, p) ==
    IF InsideEscape(s, i, p) THEN Inside
    ELSE IF Escapes(s, i, p) THEN Unescape(s, p, e)
    ELSE IF s[p] \in {"LF", "NUL"} THEN Bad
    ELSE s[p]

\* chars is what the indices of the string stand for, e the index of its quote
StringOf(chars, e) ==
    IF \E n \in DOMAIN chars : chars[n] = Bad THEN ParseError
    ELSE Parsed(StrValue(SelectSeq(chars, LAMBDA c : c # Inside)), e + 1)

\* e is the index of the closing quote of the string that starts at i
StringUpTo(s, i, e) ==
    IF e = 0 THEN ParseError
    ELSE StringOf([n \in 1..(e - i) |-> StringChar(s, i, e, i + n - 1)], e)

\* the string whose opening quote is before i (json.decoder.py_scanstring, strict):
\* the string ends at the first quote no escape holds; a raw control character is
\* an error
ScanString(s, i) == StringUpTo(s, i, StringEnd(s, i))

\* an int: 0, or a run of digits that does not start with 0
ScanNumber(s, i) ==
    LET j == IF s[i] = "0" THEN i + 1 ELSE FirstNotOf(s, Digits, i)
    IN Parsed(IntValue(SubSeq(s, i, j - 1)), j)

RECURSIVE ScanValue(_, _)
RECURSIVE ScanElements(_, _, _)
RECURSIVE ScanMembers(_, _, _)

\* r the parse of one value of a list: "," goes on, "]" ends
ElementScanned(s, acc, r) ==
    IF ~r.ok THEN ParseError
    ELSE LET j == SkipJsonSpace(s, r.pos) IN
         IF j > Len(s) THEN ParseError
         ELSE IF s[j] = "," THEN ScanElements(s, j + 1, Append(acc, r.v))
         ELSE IF s[j] = "]" THEN Parsed(ListValue(Append(acc, r.v)), j + 1)
         ELSE ParseError

\* the rest of a list from its value at i on: value ("," value)* "]"
ScanElements(s, i, acc) == ElementScanned(s, acc, ScanValue(s, SkipJsonSpace(s, i)))

\* r the parse of the value of the member whose key is k: "," goes on, "}" ends
MemberScanned(s, acc, k, r) ==
    IF ~r.ok THEN ParseError
    ELSE LET e == SkipJsonSpace(s, r.pos) IN
         IF e > Len(s) THEN ParseError
         ELSE IF s[e] = "," THEN ScanMembers(s, e + 1, SetItem(acc, k, r.v))
         ELSE IF s[e] = "}" THEN Parsed(DictValue(SetItem(acc, k, r.v)), e + 1)
         ELSE ParseError

\* key the parse of the key of a member: ":" and the value follow
KeyScanned(s, acc, key) ==
    IF ~key.ok THEN ParseError
    ELSE LET c == SkipJsonSpace(s, key.pos) IN
         IF c > Len(s) THEN ParseError
         ELSE IF s[c] # ":" THEN ParseError
         ELSE MemberScanned(s, acc, key.v.s, ScanValue(s, SkipJsonSpace(s, c + 1)))

\* the members of a dict from i on: string ":" value ("," string ":" value)* "}"
ScanMembers(s, i, acc) ==
    LET j == SkipJsonSpace(s, i) IN
    IF j > Len(s) THEN ParseError
    ELSE IF s[j] # "\"" THEN ParseError
    ELSE KeyScanned(s, acc, ScanString(s, j + 1))

\* after "{" (close "}") or "[" (close "]"), j the index of the next token
ScanContainer(s, close, j) ==
    IF j <= Len(s) /\ s[j] = close
    THEN Parsed(IF close = "}" THEN DictValue(<<>>) ELSE ListValue(<<>>), j + 1)
    ELSE IF close = "}" THEN ScanMembers(s, j, <<>>)
    ELSE ScanElements(s, j, <<>>)

\* json.scanner.py_make_scanner._scan_once at i
ScanValue(s, i) ==
    IF i > Len(s) THEN ParseError
    ELSE IF s[i] = "\"" THEN ScanString(s, i + 1)
    ELSE IF s[i] \in {"{", "["}
         THEN ScanContainer(s, IF s[i] = "{" THEN "}" ELSE "]", SkipJsonSpace(s, i + 1))
    ELSE IF s[i] \in Digits THEN ScanNumber(s, i)
    ELSE ParseError

\* r the parse of the first value of content: nothing but whitespace may follow
WholeText(content, r) ==
    IF ~r.ok THEN ParseError
    ELSE IF SkipJsonSpace(content, r.pos) > Len(content) THEN r
    ELSE ParseError

\* json.loads(content): the whole text is one value; ok is FALSE for JSONDecodeError
JsonLoads(content) == WholeText(content, ScanValue(content, SkipJsonSpace(content, 1)))

\* json.encoder.py_encode_basestring: ensure_ascii=False escapes ", \ and 0x00-0x1F
EscapeChar(c) ==
    CASE c \in {"\"", "\\"} -> <<"\\", c>>
      [] c = "LF" -> <<"\\", "n">>
      [] c = "NUL" -> <<"\\", "u">> \o UnicodeEscape("NUL")
      [] OTHER -> <<c>>
EscapeString(s) ==
    LET w == 6
        cell(n) == LET e == EscapeChar(s[((n - 1) \div w) + 1])
                       j == ((n - 1) % w) + 1
                   IN IF j <= Len(e) THEN e[j] ELSE Inside
    IN SelectSeq([n \in 1..(w * Len(s)) |-> cell(n)], LAMBDA c : c # Inside)

Quoted(s) == <<"\"">> \o EscapeString(s) \o <<"\"">>

\* indent=4
IndentWidth == 4

\* the line break and indentation json.dump writes at nesting level n
NewlineIndent(n) == <<"LF">> \o [i \in 1..(IndentWidth * n) |-> " "]

\* json.dump(data, file, ensure_ascii=False, indent=4): the text written
RECURSIVE Encode(_, _)
RECURSIVE EncodeItems(_, _, _, _)
EncodeItems(v, items, level, first) ==
    IF items = <<>> THEN <<>>
    ELSE (IF first THEN <<>> ELSE <<",">>) \o NewlineIndent(level)
         \o (IF v.t = "dict" THEN Quoted(Head(items).k) \o <<":", " ">> ELSE <<>>)
         \o Encode(Head(items).v, level)
         \o EncodeItems(v, Tail(items), level, FALSE)
Encode(v, level) ==
    CASE v.t = "str" -> Quoted(v.s)
      [] v.t = "int" -> v.s
      [] v.t = "none" -> <<"n","u","l","l">>
      [] v.t = "dict" ->
            IF v.items = <<>> THEN <<"{", "}">>
            ELSE <<"{">> \o EncodeItems(v, v.items, level + 1, TRUE)
                 \o NewlineIndent(level) \o <<"}">>
      [] OTHER ->
            IF v.items = <<>> THEN <<"[", "]">>
            ELSE <<"[">> \o EncodeItems(v, v.items, level + 1, TRUE)
                 \o NewlineIndent(level) \o <<"]">>

JsonDump(data) == Encode(data, 0)

----------------------------------------------------------------------------
(* The strings of the program                                              *)

Https == <<"h","t","t","p","s",":","/","/">>
PastebinCom == <<"p","a","s","t","e","b","i","n",".","c","o","m">>
Raw == <<"r","a","w">>
PastebinComRaw == <<"p","a","s","t","e","b","i","n",".","c","o","m","/","r","a","w">>
RawGithub == <<"r","a","w",".","g","i","t","h","u","b","u","s","e","r","c","o","n","t","e","n","t",".","c",
  "o","m">>
ExtW3u == <<".","w","3","u">>
ExtJson == <<".","j","s","o","n">>
ExtM3u == <<".","m","3","u">>
ExtMkv == <<".","m","k","v">>
ExtMp4 == <<".","m","p","4">>
TypeM3uPlus == <<"t","y","p","e","=","m","3","u","_","p","l","u","s">>
ExtM3uMarker == <<"#","E","X","T","M","3","U">>
DefaultW3u == <<"d","e","f","a","u","l","t",".","w","3","u">>
KeyName == <<"n","a","m","e">>
KeyGroups == <<"g","r","o","u","p","s">>
KeyStations == <<"s","t","a","t","i","o","n","s">>
KeyUrl == <<"u","r","l">>

\* default_url
default_url ==
    <<"h","t","t","p","s",":","/","/","x","u","p","e","r","l","i","s","t","-","1",".","n","e",
      "t","l","i","f","y",".","a","p","p","/","X","U","P","E","R","L","I","S","T","S","-","1",
      ".","w","3","u">>

----------------------------------------------------------------------------
(* get_filename_from_url                                                   *)


\* rest is the url after its scheme: a netloc follows "//" up to the next "/", "?"
\* or "#", and the path ends before the query or the fragment
AfterScheme(rest) ==
    LET noloc == IF StartsWith(rest, <<"/", "/">>)
                 THEN From(rest, FirstOf(rest, {"/", "?", "#"}, 3))
                 ELSE rest
    IN SubSeq(noloc, 1, FirstOf(noloc, {"?", "#"}, 1) - 1)

\* c is the index of the first ":" of url: a scheme is a letter and then letters,
\* digits, "+", "-" and "." up to it
SplitScheme(url, c) ==
    LET scheme == /\ 1 < c /\ c <= Len(url)
                  /\ url[1] \in Letters
                  /\ \A i \in 1..(c - 1) : url[i] \in Letters \cup Digits \cup {"+", "-", "."}
    IN AfterScheme(IF scheme THEN From(url, c + 1) ELSE url)

\* urllib.parse.urlparse(url).path: the url without scheme, netloc, query and fragment
UrlPath(url) == SplitScheme(url, FirstOf(url, {":"}, 1))

\* os.path.basename
Basename(path) == From(path, LastOf(path, {"/"}, Len(path)) + 1)

get_filename_from_url(url) ==
    LET filename == Basename(UrlPath(url))
    IN IF filename # <<>> THEN filename ELSE DefaultW3u

----------------------------------------------------------------------------
(* The web the session runs against: the urls the documents name and the   *)
(* text the content fetcher returns for each.                              *)

\* https://h/a.w3u
UrlA == <<"h","t","t","p","s",":","/","/","h","/","a",".","w","3","u">>
\* https://g/a.w3u
UrlB == <<"h","t","t","p","s",":","/","/","g","/","a",".","w","3","u">>
\* https://pastebin.com/p
UrlPaste == <<"h","t","t","p","s",":","/","/","p","a","s","t","e","b","i","n",".","c","o","m","/","p">>
\* https://pastebin.com/raw/p
UrlPasteRaw == <<"h","t","t","p","s",":","/","/","p","a","s","t","e","b","i","n",".","c","o","m","/","r","a",
  "w","/","p">>
\* https://h/e.json
UrlEmpty == <<"h","t","t","p","s",":","/","/","h","/","e",".","j","s","o","n">>
\* https://h/m.json
UrlPlaylist == <<"h","t","t","p","s",":","/","/","h","/","m",".","j","s","o","n">>
\* https://raw.githubusercontent.com/x
UrlBroken == <<"h","t","t","p","s",":","/","/","r","a","w",".","g","i","t","h","u","b","u","s","e","r","c",
  "o","n","t","e","n","t",".","c","o","m","/","x">>
\* https://h/l.w3u
UrlList == <<"h","t","t","p","s",":","/","/","h","/","l",".","w","3","u">>
\* https://h/v.m3u
UrlMedia == <<"h","t","t","p","s",":","/","/","h","/","v",".","m","3","u">>
\* https://h/w
UrlWeb == <<"h","t","t","p","s",":","/","/","h","/","w">>

\* {"name":"R","groups":[{"name":"G","url":"https://h/a.w3u","stations":[{"name":"s","url":"https://h/v.m3u"},{"name":"n"}],"groups":[{"name":"N","url":"https://pastebin.com/p","stations":[{"name":"w","url":"https://h/w"}],"groups":[{"name":"D","url":"https://h/d.w3u"}]}]},{"name":"H"}],"stations":[{"name":"t","url":"https://h/t.mp4"}]}
TextRoot ==
    <<"{","\"","n","a","m","e","\"",":","\"","R","\"",",","\"","g","r","o","u","p","s","\"",":",
      "[","{","\"","n","a","m","e","\"",":","\"","G","\"",",","\"","u","r","l","\"",":","\"",
      "h","t","t","p","s",":","/","/","h","/","a",".","w","3","u","\"",",","\"","s","t","a","t",
      "i","o","n","s","\"",":","[","{","\"","n","a","m","e","\"",":","\"","s","\"",",","\"","u",
      "r","l","\"",":","\"","h","t","t","p","s",":","/","/","h","/","v",".","m","3","u","\"",
      "}",",","{","\"","n","a","m","e","\"",":","\"","n","\"","}","]",",","\"","g","r","o","u",
      "p","s","\"",":","[","{","\"","n","a","m","e","\"",":","\"","N","\"",",","\"","u","r","l",
      "\"",":","\"","h","t","t","p","s",":","/","/","p","a","s","t","e","b","i","n",".","c","o",
      "m","/","p","\"",",","\"","s","t","a","t","i","o","n","s","\"",":","[","{","\"","n","a",
      "m","e","\"",":","\"","w","\"",",","\"","u","r","l","\"",":","\"","h","t","t","p","s",":",
      "/","/","h","/","w","\"","}","]",",","\"","g","r","o","u","p","s","\"",":","[","{","\"",
      "n","a","m","e","\"",":","\"","D","\"",",","\"","u","r","l","\"",":","\"","h","t","t","p",
      "s",":","/","/","h","/","d",".","w","3","u","\"","}","]","}","]","}",",","{","\"","n","a",
      "m","e","\"",":","\"","H","\"","}","]",",","\"","s","t","a","t","i","o","n","s","\"",":",
      "[","{","\"","n","a","m","e","\"",":","\"","t","\"",",","\"","u","r","l","\"",":","\"",
      "h","t","t","p","s",":","/","/","h","/","t",".","m","p","4","\"","}","]","}">>

\* {"name":"A","stations":[{"name":"e","url":"https://h/e.json"},{"name":"m","url":"https://h/m.json"},{"name":"x","url":"https://raw.githubusercontent.com/x"},{"name":"l","url":"https://h/l.w3u"},]}
TextA ==
    <<"{","\"","n","a","m","e","\"",":","\"","A","\"",",","\"","s","t","a","t","i","o","n","s",
      "\"",":","[","{","\"","n","a","m","e","\"",":","\"","e","\"",",","\"","u","r","l","\"",
      ":","\"","h","t","t","p","s",":","/","/","h","/","e",".","j","s","o","n","\"","}",",","{",
      "\"","n","a","m","e","\"",":","\"","m","\"",",","\"","u","r","l","\"",":","\"","h","t",
      "t","p","s",":","/","/","h","/","m",".","j","s","o","n","\"","}",",","{","\"","n","a","m",
      "e","\"",":","\"","x","\"",",","\"","u","r","l","\"",":","\"","h","t","t","p","s",":","/",
      "/","r","a","w",".","g","i","t","h","u","b","u","s","e","r","c","o","n","t","e","n","t",
      ".","c","o","m","/","x","\"","}",",","{","\"","n","a","m","e","\"",":","\"","l","\"",",",
      "\"","u","r","l","\"",":","\"","h","t","t","p","s",":","/","/","h","/","l",".","w","3",
      "u","\"","}",",","]","}">>

\* {"name":"B\u007f","stations":[{"name":"v","url":"https://h/v.m3u"}]}
TextB ==
    <<"{","\"","n","a","m","e","\"",":","\"","B","\\","u","0","0","7","f","\"",",","\"","s","t",
      "a","t","i","o","n","s","\"",":","[","{","\"","n","a","m","e","\"",":","\"","v","\"",",",
      "\"","u","r","l","\"",":","\"","h","t","t","p","s",":","/","/","h","/","v",".","m","3",
      "u","\"","}","]","}">>

\* {"name":"P","stations":[{"name":"a","url":"https://h/a.w3u"}]}
TextPaste ==
    <<"{","\"","n","a","m","e","\"",":","\"","P","\"",",","\"","s","t","a","t","i","o","n","s",
      "\"",":","[","{","\"","n","a","m","e","\"",":","\"","a","\"",",","\"","u","r","l","\"",
      ":","\"","h","t","t","p","s",":","/","/","h","/","a",".","w","3","u","\"","}","]","}">>

\* {}
TextEmpty ==
    <<"{","}">>

\* #EXTM3U<LF>https://h/v.m3u
TextPlaylist ==
    <<"#","E","X","T","M","3","U","LF","h","t","t","p","s",":","/","/","h","/","v",".","m","3",
      "u">>

\* {"name":"X"
TextBroken ==
    <<"{","\"","n","a","m","e","\"",":","\"","X","\"">>

\* [{"name":"L"}]
TextList ==
    <<"[","{","\"","n","a","m","e","\"",":","\"","L","\"","}","]">>

\* the urls a load is asked for
LoadableUrls == {default_url, UrlA, UrlB, UrlPasteRaw, UrlEmpty, UrlPlaylist, UrlBroken, UrlList}

\* the text behind each url
SiteText(url) ==
    CASE url = default_url -> TextRoot
      [] url = UrlA -> TextA
      [] url = UrlB -> TextB
      [] url = UrlPasteRaw -> TextPaste
      [] url = UrlEmpty -> TextEmpty
      [] url = UrlPlaylist -> TextPlaylist
      [] url = UrlList -> TextList
      [] OTHER -> TextBroken

----------------------------------------------------------------------------
(* clean_json, json.loads and json.dump as the program calls them.  Each   *)
(* is the function defined above; its values on the texts the web serves   *)
(* and the cache then holds are computed once and read from a table.       *)

\* the texts the web serves
SiteTexts == {SiteText(u) : u \in LoadableUrls}

\* t and what clean_json makes of it, applied again and again
RECURSIVE CleanClosure(_, _)
CleanClosure(t, seen) ==
    IF t \in seen THEN seen ELSE CleanClosure(CleanJson(t), seen \cup {t})
Closure(texts) == UNION {CleanClosure(t, {}) : t \in texts}

\* the texts json.dump writes for the texts that parse
DumpOf(r) == IF r.ok THEN {JsonDump(r.v)} ELSE {}
Written(texts) == UNION {DumpOf(JsonLoads(t)) : t \in texts}

\* the texts a session meets: served, cleaned, written to the cache, cleaned again
WithWritten(texts) == texts \cup Closure(Written(texts))
KnownTexts == WithWritten(Closure(SiteTexts))

TextTable == [t \in KnownTexts |-> [clean |-> CleanJson(t), loads |-> JsonLoads(t)]]
ValuesOf(table) == {table[t].loads.v : t \in DOMAIN table}
DumpTable == [v \in ValuesOf(TextTable) |-> JsonDump(v)]

CleanedIn(table, content) ==
    IF content \in DOMAIN table THEN table[content].clean ELSE CleanJson(content)
LoadedIn(table, content) ==
    IF content \in DOMAIN table THEN table[content].loads ELSE JsonLoads(content)
DumpedIn(table, data) ==
    IF data \in DOMAIN table THEN table[data] ELSE JsonDump(data)

clean_json(content) == CleanedIn(TextTable, content)
json_loads(content) == LoadedIn(TextTable, content)
json_dump(data) == DumpedIn(DumpTable, data)

\* validate_json(content): json.loads(content) raises no JSONDecodeError
validate_json(content) == json_loads(content).ok

\* what requests.get(url) can do: raise a RequestException, or return a response
\* with a success or an error status
TransportError == [kind |-> "error", status |-> 0, text |-> <<>>]
Response(code, body) == [kind |-> "response", status |-> code, text |-> body]
Responses(url) == {TransportError, Response(200, SiteText(url)), Response(404, SiteText(url))}

\* the answers to the (y/n) prompt, after strip().lower()
Answers == {<<"y">>, <<"n">>}

----------------------------------------------------------------------------
(* The cache files and fetch_w3u                                           *)

NoFile == [exists |-> FALSE, text |-> <<>>]
File(text) == [exists |-> TRUE, text |-> text]
CacheNames == {get_filename_from_url(u) : u \in LoadableUrls}

\* one call the program makes to the outside: op names it, arg is its argument
Event(op, arg) == [op |-> op, arg |-> arg]

\* lines 37-41 without the write: the cleaned text is parsed and the file left as
\* it was
RevalidatedUnwritten(filename, files, cleaned_content) ==
    IF validate_json(cleaned_content)
    THEN [raised |-> FALSE, data |-> json_loads(cleaned_content).v, files |-> files]
    ELSE [raised |-> TRUE, data |-> NoneValue, files |-> files]

\* lines 37-41: cleaned_content is written back and parsed when it is valid
Revalidated(filename, files, cleaned_content) ==
    IF validate_json(cleaned_content)
    THEN [raised |-> FALSE,
          data |-> json_loads(cleaned_content).v,
          files |-> [files EXCEPT ![filename] = File(cleaned_content)]]
    ELSE [raised |-> TRUE, data |-> NoneValue, files |-> files]

\* revalidate_and_clean_cache(filename): raised is TRUE for JSONDecodeError
revalidate_and_clean_cache(filename, files) ==
    Revalidated(filename, files, clean_json(files[filename].text))

\* the result of fetch_w3u: the value returned (NoneValue for None), the files and
\* the calls made
Loaded(data, files, calls) == [data |-> data, files |-> files, calls |-> calls]

\* the except clause of fetch_w3u
FetchFailed(url, files, calls) ==
    Loaded(NoneValue, files, calls \o <<Event("print_error", url), Event("input", <<>>)>>)

\* response.raise_for_status()
RaisesForStatus(response) == response.status >= 400

\* lines 66-72 without the test of the answer: VLC is called whatever the user says
PlaylistUnasked(url, files, got, confirm) ==
    Loaded(NoneValue, files,
           got \o <<Event("confirm", url), Event("answer", confirm), Event("open_in_vlc", url)>>)

\* lines 66-72: the playlist prompt and the answer to it, and VLC when the answer
\* is y
Playlist(url, files, got, confirm) ==
    Loaded(NoneValue, files,
           got \o <<Event("confirm", url), Event("answer", confirm)>>
           \o (IF confirm = <<"y">> THEN <<Event("open_in_vlc", url)>> ELSE <<>>))

\* lines 81-86: data is saved to the cache file and returned
Save(filename, files, got, data) ==
    Loaded(data, [files EXCEPT ![filename] = File(json_dump(data))],
           Append(got, Event("write", filename)))

\* lines 77-81: cleaned_json is validated and parsed
Validate(url, filename, files, got, cleaned_json) ==
    IF ~validate_json(cleaned_json) THEN FetchFailed(url, files, got)
    ELSE Save(filename, files, got, json_loads(cleaned_json).v)

\* lines 63-76 without response.raise_for_status(): the body of an error response
\* is cleaned, validated and saved
RespondedUnchecked(url, filename, files, response, confirm, got) ==
    IF response.kind = "error" THEN FetchFailed(url, files, got)
    ELSE IF StartsWith(Strip(response.text), ExtM3uMarker)
         THEN Playlist(url, files, got, confirm)
    ELSE Validate(url, filename, files, got, clean_json(response.text))

\* lines 63-76: got is the calls made up to requests.get
Responded(url, filename, files, response, confirm, got) ==
    IF response.kind = "error" THEN FetchFailed(url, files, got)
    ELSE IF StartsWith(Strip(response.text), ExtM3uMarker)
         THEN Playlist(url, files, got, confirm)
    ELSE IF RaisesForStatus(response) THEN FetchFailed(url, files, got)
    ELSE Validate(url, filename, files, got, clean_json(response.text))

\* fetch_w3u from requests.get on: the try block
FetchRemote(url, filename, files, response, confirm, calls) ==
    Responded(url, filename, files, response, confirm, Append(calls, Event("requests.get", url)))

\* lines 56-60 with the corrupt file ending the load: it is removed and the load
\* fails without a fetch
CacheCheckedNoRefetch(url, filename, files, response, confirm, r) ==
    IF ~r.raised
    THEN Loaded(r.data, r.files, <<Event("write", filename)>>)
    ELSE FetchFailed(url, [files EXCEPT ![filename] = NoFile],
                     <<Event("os.remove", filename)>>)

\* lines 56-60: r is what revalidate_and_clean_cache made of the cache file; a file
\* that is not valid is removed and the url fetched
CacheChecked(url, filename, files, response, confirm, r) ==
    IF ~r.raised
    THEN Loaded(r.data, r.files, <<Event("write", filename)>>)
    ELSE FetchRemote(url, filename, [files EXCEPT ![filename] = NoFile], response, confirm,
                     <<Event("os.remove", filename)>>)

\* fetch_w3u with its cache file named
FetchNamed(url, filename, files, response, confirm) ==
    IF files[filename].exists
    THEN CacheChecked(url, filename, files, response, confirm,
                      revalidate_and_clean_cache(filename, files))
    ELSE FetchRemote(url, filename, files, response, confirm, <<>>)

\* fetch_w3u(url) with the files as they are, the response requests.get gives if it
\* is called and the answer to the prompt if it is shown
fetch_w3u(url, files, response, confirm) ==
    FetchNamed(url, get_filename_from_url(url), files, response, confirm)

\* fetch_w3u(url) reads neither the response nor the answer: the cache serves it
CachedAs(filename, files) ==
    files[filename].exists /\ ~revalidate_and_clean_cache(filename, files).raised
Cached(url, files) == CachedAs(get_filename_from_url(url), files)

\* the responses and the answers that fetch_w3u(url) can meet: none it does not
\* read is told apart
ResponsesMet(url, files) ==
    IF Cached(url, files) THEN {TransportError} ELSE Responses(url)
AnswersMet(url, files, response) ==
    IF response.kind = "response" /\ StartsWith(Strip(response.text), ExtM3uMarker)
    THEN Answers ELSE {<<"n">>}

\* the record of one fetch_w3u call
LoadRecord(url, response, before, r) ==
    [url |-> url, response |-> response, data |-> r.data, before |-> before, calls |-> r.calls]
NoLoad == [url |-> <<>>, response |-> TransportError, data |-> NoneValue,
           before |-> NoFile, calls |-> <<>>]

\* the cache files a session may find in its working directory: none, or the slot
\* of UrlA left there earlier, truncated or saved by hand with its trailing comma
InitialCaches ==
    {[f \in CacheNames |-> NoFile]}
    \cup {[f \in CacheNames |-> IF f = get_filename_from_url(UrlA) THEN File(t) ELSE NoFile] :
            t \in {TextBroken, TextA}}

----------------------------------------------------------------------------
(* The select branch of navigate_w3u: alias rewrite and dispatch           *)

\* the rewrite without its test for "raw": a page already in raw form is rewritten
RewriteAliasUnguarded(selected_url) ==
    IF selected_url # <<>> /\ Contains(selected_url, PastebinCom)
    THEN Replace(selected_url, PastebinCom, PastebinComRaw)
    ELSE selected_url

\* lines 176-178: https://pastebin.com/* is treated as https://pastebin.com/raw/*
RewriteAlias(selected_url) ==
    IF selected_url # <<>> /\ Contains(selected_url, PastebinCom) /\ ~Contains(selected_url, Raw)
    THEN Replace(selected_url, PastebinCom, PastebinComRaw)
    ELSE selected_url

\* the conditions of lines 181 and 183
IsSubDocument(selected_url) ==
    \/ EndsWith(selected_url, ExtW3u)
    \/ EndsWith(selected_url, ExtJson)
    \/ Contains(selected_url, RawGithub)
    \/ Contains(selected_url, PastebinComRaw)
IsMedia(selected_url) ==
    \/ EndsWith(selected_url, ExtM3u)
    \/ Contains(Lower(selected_url), Lower(TypeM3uPlus))
    \/ EndsWith(selected_url, ExtMkv)
    \/ EndsWith(selected_url, ExtMp4)

\* lines 180-190 without the media branch: what is no sub-document goes to the
\* browser
DispatchWithoutMedia(selected_url) ==
    IF selected_url = <<>> THEN <<>>
    ELSE IF IsSubDocument(selected_url) THEN <<Event("navigate_w3u", selected_url)>>
    ELSE <<Event("webbrowser.open", selected_url)>>

\* lines 180-190: the calls the branch makes for the rewritten url, in order
Dispatch(selected_url) ==
    IF selected_url = <<>> THEN <<>>
    ELSE IF IsSubDocument(selected_url) THEN <<Event("navigate_w3u", selected_url)>>
    ELSE IF IsMedia(selected_url) THEN <<Event("open_in_vlc", selected_url)>>
    ELSE <<Event("webbrowser.open", selected_url)>>

----------------------------------------------------------------------------
(* Loader runs: fetch_w3u called on any url, one call after another        *)

IdleNav ==
    /\ status = "idle"
    /\ stack = <<>>
    /\ history = <<>>
    /\ options = <<>>
    /\ option_index = 0
    /\ selected = NoOption
IdleLoader ==
    /\ cache \in {[f \in CacheNames |-> NoFile]}
    /\ trace = <<>>
    /\ ld_prev = NoLoad
    /\ ld_last = NoLoad
IdleSanitizer ==
    /\ san_x = <<>>
    /\ san_y = <<>>
    /\ san_z = <<>>
    /\ san_n = 0
IdleClassifier ==
    /\ cls_url = <<>>
    /\ cls_once = <<>>
    /\ cls_twice = <<>>
    /\ cls_n = 0
    /\ cls_calls = <<>>

InitLoader ==
    /\ IdleNav
    /\ cache \in InitialCaches
    /\ trace = <<>>
    /\ ld_prev = NoLoad
    /\ ld_last = NoLoad
    /\ IdleSanitizer
    /\ IdleClassifier

\* one fetch_w3u(url) call
Load(url, response, confirm) ==
    LET r == fetch_w3u(url, cache, response, confirm) IN
    /\ cache' = r.files
    /\ trace' = r.calls
    /\ ld_prev' = ld_last
    /\ ld_last' = LoadRecord(url, response, cache[get_filename_from_url(url)], r)
    /\ UNCHANGED <<status, stack, history, options, option_index, selected>>
    /\ UNCHANGED <<sanVars, clsVars>>

\* the urls the Loader runs ask for
LoaderUrls == {UrlA, UrlB, UrlEmpty, UrlPlaylist, UrlBroken}

NextLoader ==
    \E url \in LoaderUrls : \E response \in ResponsesMet(url, cache) :
       \E confirm \in AnswersMet(url, cache, response) :
          Load(url, response, confirm)

SpecLoader == InitLoader /\ [][NextLoader]_vars

----------------------------------------------------------------------------
(* Sanitizer runs: clean_json applied to a text, then to its own result    *)

\* the longest text given to the Sanitizer
MaxText == 3

SanitizerChars == {",", "}", "]", " ", "LF", "NUL", "a"}
SanitizerTexts == UNION {[1..n -> SanitizerChars] : n \in 0..MaxText}

InitSanitizer ==
    /\ IdleNav
    /\ IdleLoader
    /\ san_x \in SanitizerTexts
    /\ san_y = <<>>
    /\ san_z = <<>>
    /\ san_n = 0
    /\ IdleClassifier

SanitizeOnce ==
    /\ san_n = 0
    /\ san_y' = clean_json(san_x)
    /\ san_n' = 1
    /\ UNCHANGED <<san_x, san_z>>
    /\ UNCHANGED <<navVars, clsVars>>

SanitizeAgain ==
    /\ san_n = 1
    /\ san_z' = clean_json(san_y)
    /\ san_n' = 2
    /\ UNCHANGED <<san_x, san_y>>
    /\ UNCHANGED <<navVars, clsVars>>

NextSanitizer == SanitizeOnce \/ SanitizeAgain

SpecSanitizer == InitSanitizer /\ [][NextSanitizer]_vars

----------------------------------------------------------------------------
(* Classifier runs: the select branch applied to a url                     *)

\* the most parts a url given to the Classifier is made of
MaxParts == 3

UrlParts == {Https, PastebinCom, Raw, <<"/", "a">>, ExtW3u, ExtM3u, RawGithub,
             <<"?", "T", "Y", "P", "E", "=", "m", "3", "u", "_", "p", "l", "u", "s">>}

RECURSIVE Join(_)
Join(parts) == IF parts = <<>> THEN <<>> ELSE Head(parts) \o Join(Tail(parts))

ClassifierUrls == {Join(ps) : ps \in UNION {[1..n -> UrlParts] : n \in 0..MaxParts}}

InitClassifier ==
    /\ IdleNav
    /\ IdleLoader
    /\ IdleSanitizer
    /\ cls_url \in ClassifierUrls
    /\ cls_once = <<>>
    /\ cls_twice = <<>>
    /\ cls_n = 0
    /\ cls_calls = <<>>

RewriteOnce ==
    /\ cls_n = 0
    /\ cls_once' = RewriteAlias(cls_url)
    /\ cls_n' = 1
    /\ UNCHANGED <<cls_url, cls_twice, cls_calls>>
    /\ UNCHANGED <<navVars, sanVars>>

RewriteAgain ==
    /\ cls_n = 1
    /\ cls_twice' = RewriteAlias(cls_once)
    /\ cls_n' = 2
    /\ UNCHANGED <<cls_url, cls_once, cls_calls>>
    /\ UNCHANGED <<navVars, sanVars>>

DispatchRewritten ==
    /\ cls_n = 2
    /\ cls_calls' = Dispatch(cls_once)
    /\ cls_n' = 3
    /\ UNCHANGED <<cls_url, cls_once, cls_twice>>
    /\ UNCHANGED <<navVars, sanVars>>

NextClassifier == RewriteOnce \/ RewriteAgain \/ DispatchRewritten

SpecClassifier == InitClassifier /\ [][NextClassifier]_vars

----------------------------------------------------------------------------
(* navigate_w3u: the render                                                *)

\* options.append(...) and option_index += 1
AddOption(r, entry, parent_group) ==
    [options |-> Append(r.options, Option(entry, parent_group)),
     option_index |-> r.option_index + 1]

\* the loops of lines 132-136, 145-149 and 151-155 from the i-th station on
RECURSIVE AddStations(_, _, _, _)
AddStations(r, stations, parent_group, i) ==
    IF i > Len(stations) THEN r
    ELSE AddStations(AddOption(r, stations[i], parent_group), stations, parent_group, i + 1)

\* the loop of lines 139-149 without its inner loop: the stations of the nested
\* groups are not listed
RECURSIVE AddNestedGroupsOnly(_, _, _, _)
AddNestedGroupsOnly(r, nested_groups, group, k) ==
    IF k > Len(nested_groups) THEN r
    ELSE AddNestedGroupsOnly(AddOption(r, nested_groups[k], group), nested_groups, group, k + 1)

\* the loop of lines 139-149 from the k-th nested group on
RECURSIVE AddNestedGroups(_, _, _, _)
AddNestedGroups(r, nested_groups, group, k) ==
    IF k > Len(nested_groups) THEN r
    ELSE LET nested_group == nested_groups[k]
             nested_group_stations == Elements(Get(nested_group, KeyStations, ListValue(<<>>)))
         IN AddNestedGroups(
                AddStations(AddOption(r, nested_group, group),
                            nested_group_stations, nested_group, 1),
                nested_groups, group, k + 1)

\* the loop of lines 126-149 from the i-th group on
RECURSIVE AddGroups(_, _, _)
AddGroups(r, groups, i) ==
    IF i > Len(groups) THEN r
    ELSE LET group == groups[i]
             group_stations == Elements(Get(group, KeyStations, ListValue(<<>>)))
             nested_groups == Elements(Get(group, KeyGroups, ListValue(<<>>)))
         IN AddGroups(
                AddNestedGroups(
                    AddStations(AddOption(r, group, NoneValue), group_stations, group, 1),
                    nested_groups, group, 1),
                groups, i + 1)

\* lines 119-155: the options and the option counter of one render of data
Render(data) ==
    LET groups == Get(data, KeyGroups, ListValue(<<>>))
        stations == Get(data, KeyStations, ListValue(<<>>))
        none == [options |-> <<>>, option_index |-> 0]
    IN IF Truthy(groups) THEN AddGroups(none, Elements(groups), 1)
       ELSE IF Truthy(stations) THEN AddStations(none, Elements(stations), NoneValue, 1)
       ELSE none

----------------------------------------------------------------------------
(* navigate_w3u: the call stack                                            *)
(*                                                                         *)
(* A frame is one navigate_w3u call: its url and data, and how it was      *)
(* called (via): "main" from the main block, "select" from line 182, whose *)
(* caller goes on with its loop when the call returns, or "back" from      *)
(* lines 168 and 196, whose caller returns what the call returns.  The     *)
(* last frame is the one in its loop; trail is the pages the user went     *)
(* through to reach the frame's page, the page itself last.                *)

Frame(url, data, via, trail) == [url |-> url, data |-> data, via |-> via, trail |-> trail]

\* the session while one handler runs
Machine(st, frames, hist, files, calls, load) ==
    [status |-> st, stack |-> frames, history |-> hist, files |-> files, calls |-> calls,
     load |-> load, selected |-> NoOption]

Top(frames) == frames[Len(frames)]

\* the last frame as it calls navigate_w3u in a return statement: it only returns
\* what the call returns, and nothing of it is read again
Returning(frames) ==
    [frames EXCEPT ![Len(frames)] = Frame(<<>>, NoneValue, frames[Len(frames)].via, <<>>)]

\* an exception no frame catches ends every frame
Crash(m) == [m EXCEPT !.status = "crashed", !.stack = <<>>]

\* lines 110-158, the first statements of the loop of the last frame: data.get is
\* an AttributeError when data is not a dict
Loop(m) ==
    IF m.stack # <<>> /\ Top(m.stack).data.t # "dict" THEN Crash(m) ELSE m

\* the last frame returns: a caller that selected goes on with its loop, a caller
\* that went back returns too, and the main block ends the session
RECURSIVE Return(_)
Return(m) ==
    LET f == Top(m.stack)
        rest == SubSeq(m.stack, 1, Len(m.stack) - 1)
    IN IF f.via = "main" THEN [m EXCEPT !.status = "ended", !.stack = <<>>]
       ELSE IF f.via = "select" THEN Loop([m EXCEPT !.stack = rest])
       ELSE Return([m EXCEPT !.stack = rest])

\* the caller after navigate_w3u returned without entering its loop
Returned(m, via) ==
    IF via = "main" THEN [m EXCEPT !.status = "ended"]
    ELSE IF via = "select" THEN Loop(m)
    ELSE Return(m)

\* lines 104-117 with url appended to history before data is tested
EnterWithEarlyPush(loaded, url, cache_message, via, trail, data) ==
    IF ~Truthy(data)
    THEN Returned([loaded EXCEPT !.history = Append(loaded.history, url)], via)
    ELSE Loop([loaded EXCEPT
                 !.history = Append(loaded.history, url),
                 !.stack = Append(loaded.stack, Frame(url, data, via, trail)),
                 !.calls = loaded.calls \o
                           (IF cache_message # <<>> THEN <<Event("print", cache_message)>>
                            ELSE <<>>)])

\* lines 104-117: data is what fetch_w3u returned to the call; a call without data
\* returns, another appends url to history and enters its loop
EnterWith(loaded, url, cache_message, via, trail, data) ==
    IF ~Truthy(data) THEN Returned(loaded, via)
    ELSE Loop([loaded EXCEPT
                 !.history = Append(loaded.history, url),
                 !.stack = Append(loaded.stack, Frame(url, data, via, trail)),
                 !.calls = loaded.calls \o
                           (IF cache_message # <<>> THEN <<Event("print", cache_message)>>
                            ELSE <<>>)])

\* line 103: r is the result of fetch_w3u(url)
Fetched(m, url, cache_message, via, trail, response, r) ==
    EnterWith([m EXCEPT !.files = r.files,
                        !.calls = m.calls \o r.calls,
                        !.load = LoadRecord(url, response, m.files[get_filename_from_url(url)], r)],
              url, cache_message, via, trail, r.data)

\* lines 101-117: navigate_w3u(url, history, cache_message) called from the last
\* frame, up to the first input of the new frame
Enter(m, url, cache_message, via, trail, response, confirm) ==
    Fetched(m, url, cache_message, via, trail, response,
            fetch_w3u(url, m.files, response, confirm))

\* the options and the option counter the last frame shows
Shown(m) ==
    IF m.stack = <<>> THEN [options |-> <<>>, option_index |-> 0]
    ELSE Render(Top(m.stack).data)

\* the variables after a handler that left the session as m, r what it shows
BecomesShowing(m, r) ==
    /\ status' = m.status
    /\ stack' = m.stack
    /\ history' = m.history
    /\ cache' = m.files
    /\ trace' = m.calls
    /\ ld_last' = m.load
    /\ selected' = m.selected
    /\ options' = r.options
    /\ option_index' = r.option_index
    /\ UNCHANGED <<ld_prev, sanVars, clsVars>>

\* the variables after a handler that left the session as m
Becomes(m) == BecomesShowing(m, Shown(m))

\* the session as input() returns choice to the last frame
Reading(choice) == Machine(status, stack, history, cache, <<Event("choice", choice)>>, NoLoad)

----------------------------------------------------------------------------
(* navigate_w3u: the command loop                                          *)

\* the deepest the call stack grows
MaxDepth == 3

\* the longest history grows
MaxHistory == 3

NoParentDirectory == <<"N","o"," ","p","a","r","e","n","t"," ","d","i","r","e","c","t","o","r","y",".">>
InvalidChoice == <<"I","n","v","a","l","i","d"," ","c","h","o","i","c","e","."," ","T","r","y"," ","a","g","a","i","n",".">>

\* the lines the user types
InputLines ==
    {<<"q">>, <<" ", "Q">>, <<"b">>, <<>>, <<" ">>, <<"x">>, <<"0", "4">>}
    \cup {<<d>> : d \in {"0", "1", "2", "3", "4", "5", "6"}}

\* input("Choose an option: ").strip().lower()
Choice(line) == Lower(Strip(line))

\* str.isdigit and int on the characters of the model
IsDigit(choice) == choice # <<>> /\ \A i \in DOMAIN choice : choice[i] \in Digits
DigitValue(d) == CHOOSE n \in 0..9 : <<"0","1","2","3","4","5","6","7","8","9">>[n + 1] = d
RECURSIVE IntOf(_)
IntOf(choice) ==
    IF choice = <<>> THEN 0
    ELSE 10 * IntOf(SubSeq(choice, 1, Len(choice) - 1)) + DigitValue(choice[Len(choice)])

\* selected.get("url"), the empty string standing for None as well
UrlOf(entry) == Get(entry, KeyUrl, NoneValue).s

\* the main block: navigate_w3u(start_url, [])
Start ==
    /\ status = "init"
    /\ \E response \in ResponsesMet(default_url, cache) :
       \E confirm \in AnswersMet(default_url, cache, response) :
          Becomes(Enter(Machine("running", <<>>, <<>>, cache, <<>>, NoLoad),
                        default_url, <<>>, "main", <<default_url>>, response, confirm))

\* lines 162-163: break ends the loop and the call returns
Quit(line) ==
    /\ status = "running"
    /\ Choice(line) = <<"q">>
    /\ Becomes(Return(Reading(<<"q">>)))

\* lines 166-168 with one pop: the url loaded is the one before the last, and the
\* last stays in history
LeavePoppingOnce(m, previous_url, trail, response, confirm) ==
    Enter([m EXCEPT !.history = SubSeq(m.history, 1, Len(m.history) - 1),
                    !.stack = Returning(m.stack)],
          previous_url, <<>>, "back",
          IF Len(trail) > 1 THEN SubSeq(trail, 1, Len(trail) - 1) ELSE trail,
          response, confirm)

\* lines 166-168 and 194-196: previous_url is popped with the url before it and
\* loaded; trail is the pages that led to the page left
Leave(m, previous_url, trail, response, confirm) ==
    Enter([m EXCEPT !.history = SubSeq(m.history, 1, Len(m.history) - 2),
                    !.stack = Returning(m.stack)],
          previous_url, <<>>, "back",
          IF Len(trail) > 1 THEN SubSeq(trail, 1, Len(trail) - 1) ELSE trail,
          response, confirm)

\* lines 165-171 with the page loaded again where the code prints its notice: the
\* only entry of history is popped and navigate_w3u called with it
GoBackReloading(m, response, confirm) ==
    IF Len(m.history) > 1
    THEN Leave(m, m.history[Len(m.history) - 1], Top(m.stack).trail, response, confirm)
    ELSE Fetched([m EXCEPT !.history = <<>>, !.stack = Returning(m.stack)],
                 m.history[1], <<>>, "back", Top(m.stack).trail, response,
                 Loaded(Top(m.stack).data, m.files, <<>>))

\* lines 165-171 and 193-199
GoBack(m, response, confirm) ==
    IF Len(m.history) > 1
    THEN Leave(m, m.history[Len(m.history) - 1], Top(m.stack).trail, response, confirm)
    ELSE Loop([m EXCEPT !.calls = m.calls \o <<Event("print", NoParentDirectory),
                                               Event("input", <<>>)>>])

\* the url a back command loads, when it loads one
BackUrl == IF Len(history) > 1 THEN history[Len(history) - 1] ELSE default_url

\* b or the empty line, url the one it loads if it loads one
BackTo(choice, url) ==
    \E response \in ResponsesMet(url, cache) :
    \E confirm \in AnswersMet(url, cache, response) :
       Becomes(GoBack(Reading(choice), response, confirm))

\* lines 164-171: b
Back(line) ==
    /\ status = "running"
    /\ Choice(line) = <<"b">>
    /\ Len(history) > 1 => Len(stack) < MaxDepth
    /\ BackTo(<<"b">>, BackUrl)

\* lines 191-199: the empty line
Empty(line) ==
    /\ status = "running"
    /\ Choice(line) = <<>>
    /\ Len(history) > 1 => Len(stack) < MaxDepth
    /\ BackTo(<<>>, BackUrl)

\* line 182: navigate_w3u(selected_url, history, cache_message=filename)
Descend(m, selected_url) ==
    /\ Len(stack) < MaxDepth
    /\ Len(history) < MaxHistory
    /\ \E response \in ResponsesMet(selected_url, cache) :
       \E confirm \in AnswersMet(selected_url, cache, response) :
          Becomes(Enter(m, selected_url, get_filename_from_url(selected_url), "select",
                        Append(Top(stack).trail, selected_url), response, confirm))

\* lines 180-190: calls is what the branch calls for selected_url
Dispatched(m, selected_url, calls) ==
    IF calls # <<>> /\ calls[1].op = "navigate_w3u"
    THEN Descend(m, selected_url)
    ELSE Becomes(Loop([m EXCEPT !.calls = m.calls \o calls]))

\* lines 176-178: the url of the option, rewritten when it is a pastebin page
Rewritten(m, selected_url) == Dispatched(m, selected_url, Dispatch(selected_url))

\* lines 173-176: chosen is options[int(choice)]
Chosen(choice, chosen) ==
    Rewritten([Reading(choice) EXCEPT !.selected = chosen], RewriteAlias(UrlOf(chosen.selected)))

\* str.isdigit(choice) and int(choice) < option_index
IsOption(choice) == IsDigit(choice) /\ IntOf(choice) < option_index

\* lines 172-190: a numeral less than option_index
SelectChoice(choice) ==
    /\ choice \notin {<<"q">>, <<"b">>}
    /\ IsOption(choice)
    /\ Chosen(choice, options[IntOf(choice) + 1])
Select(line) ==
    /\ status = "running"
    /\ SelectChoice(Choice(line))

\* lines 200-202: anything else
InvalidChoiceOf(choice) ==
    /\ choice \notin {<<"q">>, <<"b">>, <<>>}
    /\ ~IsOption(choice)
    /\ Becomes(Loop([Reading(choice) EXCEPT
                       !.calls = <<Event("choice", choice), Event("print", InvalidChoice),
                                   Event("input", <<>>)>>]))
Invalid(line) ==
    /\ status = "running"
    /\ InvalidChoiceOf(Choice(line))

Init ==
    /\ status = "init"
    /\ stack = <<>>
    /\ history = <<>>
    /\ cache = [f \in CacheNames |-> NoFile]
    /\ options = <<>>
    /\ option_index = 0
    /\ selected = NoOption
    /\ trace = <<>>
    /\ ld_prev = NoLoad
    /\ ld_last = NoLoad
    /\ IdleSanitizer
    /\ IdleClassifier

Next ==
    \/ Start
    \/ \E line \in InputLines :
          \/ Quit(line)
          \/ Back(line)
          \/ Empty(line)
          \/ Select(line)
          \/ Invalid(line)

Spec == Init /\ [][Next]_vars

----------------------------------------------------------------------------
(* Properties of the Sanitizer runs                                        *)

\* C6: the Sanitizer is idempotent: clean_json applied to its own result returns
\* that result unchanged, for every input text
SanitizerIdempotent == san_n = 2 => san_z = san_y

----------------------------------------------------------------------------
(* Properties of the Classifier runs                                       *)

\* C7: the alias rewrite is idempotent, and every non-empty rewritten url is
\* dispatched to exactly one of the sub-document load, the media launcher and the
\* browser launcher
ClassifierIdempotentTotal ==
    /\ cls_n >= 2 => cls_twice = cls_once
    /\ cls_n = 3 /\ cls_once # <<>> =>
          /\ Len(cls_calls) = 1
          /\ cls_calls[1].op \in {"navigate_w3u", "open_in_vlc", "webbrowser.open"}
          /\ cls_calls[1].arg = cls_once
          /\ cls_calls[1].op = "navigate_w3u" <=> IsSubDocument(cls_once)
          /\ cls_calls[1].op = "open_in_vlc" <=> ~IsSubDocument(cls_once) /\ IsMedia(cls_once)

\* a pastebin page was rewritten, rewritten again and dispatched as a sub-document
ClassifierRewroteAndLoaded ==
    /\ cls_n = 3
    /\ cls_url # cls_once
    /\ cls_twice = cls_once
    /\ cls_calls = <<Event("navigate_w3u", cls_once)>>

\* C18: a selected url that contains pastebin.com and does not contain
\* pastebin.com/raw is rewritten to the raw form and dispatched as a sub-document
PastePageLoadedRaw ==
    (/\ cls_n = 3
     /\ Contains(cls_url, PastebinCom)
     /\ ~Contains(cls_url, PastebinComRaw))
    => /\ cls_once = Replace(cls_url, PastebinCom, PastebinComRaw)
       /\ cls_calls = <<Event("navigate_w3u", cls_once)>>

----------------------------------------------------------------------------
(* Properties of the Loader runs                                           *)

\* C5: cache round-trip: when a load of a url returned a Document and the next load
\* of the same url finds the content fetcher unavailable, the second load returns
\* a Document equal to the first
CacheRoundTrip ==
    (/\ ld_prev.url # <<>>
     /\ ld_prev.url = ld_last.url
     /\ ld_prev.data # NoneValue
     /\ ld_last.response = TransportError)
    => ld_last.data = ld_prev.data

\* the load ld asked the content fetcher and failed at the fetch or at the integrity
\* gate: a transport error, a non-success status, or a body that does not validate
\* after clean_json
FailedAtFetch(ld) ==
    /\ ld.url # <<>>
    /\ \E i \in DOMAIN ld.calls : ld.calls[i].op = "requests.get"
    /\ \/ ld.response.kind = "error"
       \/ ld.response.status >= 400
       \/ ~validate_json(clean_json(ld.response.text))

\* C10 as stated: a load that fails at fetch or at the integrity gate returns no
\* Document and leaves every cache slot as it was
FailedLoadLeavesCache ==
    [][FailedAtFetch(ld_last') => ld_last'.data = NoneValue /\ cache' = cache]_vars

\* C10, amended: a load that fails at fetch or at the integrity gate returns no
\* Document and writes no cache slot; the one change it can make is the removal of
\* the slot of its url, when that slot existed and failed validation
FailedLoadWritesNothing ==
    [][FailedAtFetch(ld_last') =>
          /\ ld_last'.data = NoneValue
          /\ \A f \in CacheNames :
                \/ cache'[f] = cache[f]
                \/ /\ f = get_filename_from_url(ld_last'.url)
                   /\ cache[f].exists
                   /\ ~validate_json(clean_json(cache[f].text))
                   /\ cache'[f] = NoFile]_vars

\* a load found its slot corrupt, removed it and then failed at the fetch
FailedLoadRemovedSlot ==
    /\ FailedAtFetch(ld_last)
    /\ ld_last.before.exists
    /\ ~cache[get_filename_from_url(ld_last.url)].exists
    /\ \E i \in DOMAIN trace : trace[i].op = "os.remove"
    /\ \E i \in DOMAIN trace : trace[i].op = "print_error"

\* the load ld fetched a text that begins with the media-playlist marker
FetchedPlaylist(ld) ==
    /\ ld.url # <<>>
    /\ \E i \in DOMAIN ld.calls : ld.calls[i].op = "requests.get"
    /\ ld.response.kind = "response"
    /\ StartsWith(ld.response.text, ExtM3uMarker)

\* the calls of ld from requests.get on
CallsFromGet(ld) ==
    SubSeq(ld.calls, CHOOSE i \in DOMAIN ld.calls : ld.calls[i].op = "requests.get",
           Len(ld.calls))

\* C11: a load whose fetched text begins with #EXTM3U returns no Document, writes
\* no cache slot and goes from the fetch straight to the prompt, without the error
\* a parse of the text would end in; VLC is called, once, only when the answer is y
PlaylistNeverLoaded ==
    [][FetchedPlaylist(ld_last') =>
          /\ ld_last'.data = NoneValue
          /\ \A f \in CacheNames : cache'[f] = cache[f] \/ cache'[f] = NoFile
          /\ \A i \in DOMAIN trace' : trace'[i].op \notin {"write", "print_error"}
          /\ \/ CallsFromGet(ld_last') =
                   <<Event("requests.get", ld_last'.url), Event("confirm", ld_last'.url),
                     Event("answer", <<"y">>), Event("open_in_vlc", ld_last'.url)>>
             \/ CallsFromGet(ld_last') =
                   <<Event("requests.get", ld_last'.url), Event("confirm", ld_last'.url),
                     Event("answer", <<"n">>)>>]_vars

\* a playlist was fetched, the user confirmed and VLC was called
PlaylistConfirmed ==
    /\ FetchedPlaylist(ld_last)
    /\ ld_last.data = NoneValue
    /\ trace[Len(trace)] = Event("open_in_vlc", ld_last.url)

\* the load ld found the slot of its url in the cache, not valid after clean_json
FoundCorruptSlot(ld) ==
    /\ ld.url # <<>>
    /\ ld.before.exists
    /\ ~validate_json(clean_json(ld.before.text))

\* the fetch of ld succeeded: a success status and a body, not a playlist, that is
\* valid after clean_json
FetchSucceeded(ld) ==
    /\ ld.response.kind = "response"
    /\ ld.response.status < 400
    /\ ~StartsWith(Strip(ld.response.text), ExtM3uMarker)
    /\ validate_json(clean_json(ld.response.text))

\* C12: a load that finds its slot corrupt deletes the slot and goes on to fetch in
\* the same call; when the fetch succeeds the load returns the fetched Document and
\* the slot holds it, newly written
CorruptSlotRefetched ==
    [][FoundCorruptSlot(ld_last') =>
          /\ Len(trace') >= 2
          /\ trace'[1] = Event("os.remove", get_filename_from_url(ld_last'.url))
          /\ trace'[2] = Event("requests.get", ld_last'.url)
          /\ FetchSucceeded(ld_last') =>
                /\ ld_last'.data = json_loads(clean_json(ld_last'.response.text)).v
                /\ trace'[Len(trace')] = Event("write", get_filename_from_url(ld_last'.url))
                /\ cache'[get_filename_from_url(ld_last'.url)].exists
                /\ cache'[get_filename_from_url(ld_last'.url)].text # ld_last'.before.text
                /\ json_loads(cache'[get_filename_from_url(ld_last'.url)].text).v = ld_last'.data]_vars

\* a load found a truncated slot, fetched and returned the Document it fetched
CorruptSlotReplaced ==
    /\ FoundCorruptSlot(ld_last)
    /\ FetchSucceeded(ld_last)
    /\ ld_last.data # NoneValue
    /\ trace[1].op = "os.remove"
    /\ cache[get_filename_from_url(ld_last.url)].exists

\* C14: when two different urls share a cache file name and the load of the second
\* follows the load of the first, both returning a Document, the slot holds the
\* content of the second url
CollisionOverwrites ==
    (/\ ld_prev.url # <<>>
     /\ ld_last.url # ld_prev.url
     /\ get_filename_from_url(ld_last.url) = get_filename_from_url(ld_prev.url)
     /\ ld_prev.data # NoneValue
     /\ ld_last.data # NoneValue)
    => json_loads(cache[get_filename_from_url(ld_last.url)].text).v
          = json_loads(clean_json(SiteText(ld_last.url))).v

\* the fetcher calls of the load ld
FetcherCalls(ld) == {i \in DOMAIN ld.calls : ld.calls[i].op = "requests.get"}

\* the load ld found the slot of its url in the cache, valid after clean_json
FoundValidSlot(ld) ==
    /\ ld.url # <<>>
    /\ ld.before.exists
    /\ validate_json(clean_json(ld.before.text))

\* C15: one load calls the content fetcher at most once, and not at all when the
\* slot of its url exists and is valid after clean_json: the slot is then rewritten
\* with the cleaned text, the Document parsed from that text is returned and no
\* other slot changes
LoadFetchesAtMostOnce ==
    [][/\ Cardinality(FetcherCalls(ld_last')) <= 1
       /\ FoundValidSlot(ld_last') =>
             /\ FetcherCalls(ld_last') = {}
             /\ trace' = <<Event("write", get_filename_from_url(ld_last'.url))>>
             /\ cache' = [cache EXCEPT ![get_filename_from_url(ld_last'.url)] =
                                          File(clean_json(ld_last'.before.text))]
             /\ ld_last'.data = json_loads(clean_json(ld_last'.before.text)).v]_vars

\* a load was served from a slot that held a trailing comma, and rewrote the slot
\* without it
SlotRewrittenClean ==
    /\ FoundValidSlot(ld_last)
    /\ FetcherCalls(ld_last) = {}
    /\ ld_last.data # NoneValue
    /\ cache[get_filename_from_url(ld_last.url)].exists
    /\ cache[get_filename_from_url(ld_last.url)].text # ld_last.before.text

\* C17: a load whose fetch returns a non-success status, whatever the body, ends in
\* the fetch error and its press-enter gate, returns no Document and does not call
\* the media launcher
ErrorStatusSurfaced ==
    (/\ ld_last.url # <<>>
     /\ FetcherCalls(ld_last) # {}
     /\ ld_last.response.kind = "response"
     /\ ld_last.response.status >= 400)
    => /\ ld_last.data = NoneValue
       /\ Len(ld_last.calls) >= 3
       /\ SubSeq(ld_last.calls, Len(ld_last.calls) - 1, Len(ld_last.calls))
             = <<Event("print_error", ld_last.url), Event("input", <<>>)>>
       /\ \A i \in DOMAIN ld_last.calls : ld_last.calls[i].op # "open_in_vlc"

----------------------------------------------------------------------------
(* Properties of the navigation                                            *)

\* the command the last step read
LastChoice == IF trace # <<>> /\ trace[1].op = "choice" THEN trace[1].arg ELSE <<"-">>

\* C1: q entered in the command loop of any frame, at any depth, ends the whole
\* session: no page is shown and no input is read after it
QuitEndsSession == LastChoice = <<"q">> => status = "ended"

\* the step read a back command: b or the empty line
ReadBack == trace' # <<>> /\ trace'[1] \in {Event("choice", <<"b">>), Event("choice", <<>>)}

\* the page the page of the last frame was reached from
ParentPage == Top(stack).trail[Len(Top(stack).trail) - 1]

\* C2: with more than one entry in history, a back command whose reload succeeds
\* shows the page from which the page it leaves was reached
BackShowsParent ==
    [][(/\ status = "running"
        /\ Len(history) > 1
        /\ Len(Top(stack).trail) > 1
        /\ ReadBack
        /\ ld_last'.data # NoneValue
        /\ status' = "running")
       => Top(stack').url = ParentPage]_vars

\* C3: a back command with exactly one entry in history pops nothing: history is
\* unchanged, nothing is loaded and the same page is shown again
BackAtRootStays ==
    [][(status = "running" /\ Len(history) = 1 /\ ReadBack)
       => /\ history' = history
          /\ ld_last' = NoLoad
          /\ cache' = cache
          /\ status' = "running"
          /\ stack' = stack
          /\ options' = options
          /\ option_index' = option_index
          /\ Tail(trace') = <<Event("print", NoParentDirectory), Event("input", <<>>)>>]_vars

\* b was entered on the root page and answered with the notice
BackRefusedAtRoot ==
    /\ status = "running"
    /\ Len(history) = 1
    /\ trace = <<Event("choice", <<"b">>), Event("print", NoParentDirectory),
                 Event("input", <<>>)>>

\* C4: when the selected entry is a sub-document and the load returns no Document,
\* the Navigator stays on the page it shows and history is what it was
FailedSelectStays ==
    [][(/\ status = "running"
        /\ selected' # NoOption
        /\ ld_last'.url # <<>>
        /\ ld_last'.data = NoneValue)
       => /\ history' = history
          /\ status' = "running"
          /\ stack' = stack
          /\ options' = options
          /\ option_index' = option_index]_vars

\* a sub-document was selected below the root, its fetch failed and the page stayed
SelectFailedOnPage ==
    /\ status = "running"
    /\ selected # NoOption
    /\ ld_last.url # <<>>
    /\ ld_last.data = NoneValue
    /\ Len(history) > 1
    /\ \E i \in DOMAIN trace : trace[i].op = "print_error"

\* the lists of a Document or of a group
StationsOf(v) == Elements(Get(v, KeyStations, ListValue(<<>>)))
GroupsOf(v) == Elements(Get(v, KeyGroups, ListValue(<<>>)))

\* a group that is nested in a group, then its stations, for the k-th nested
\* group on
RECURSIVE NestedListing(_, _)
NestedListing(nested, k) ==
    IF k > Len(nested) THEN <<>>
    ELSE <<nested[k]>> \o StationsOf(nested[k]) \o NestedListing(nested, k + 1)

\* a top-level group, then its stations, then its nested groups, for the i-th
\* group on
RECURSIVE GroupListing(_, _)
GroupListing(groups, i) ==
    IF i > Len(groups) THEN <<>>
    ELSE <<groups[i]>> \o StationsOf(groups[i]) \o NestedListing(GroupsOf(groups[i]), 1)
         \o GroupListing(groups, i + 1)

\* the entries of a Document in pre-order; its top-level stations when it has no
\* group
Listing(data) ==
    IF GroupsOf(data) # <<>> THEN GroupListing(GroupsOf(data), 1) ELSE StationsOf(data)

\* the options shown, count of them, are the entries of listing, numbered 0..n-1
ShowsListing(listing, shown, count) ==
    /\ count = Len(shown)
    /\ [i \in DOMAIN shown |-> shown[i].selected] = listing

\* the numeral choice is accepted exactly when it is less than the length of
\* listing, and selects the entry of that number
AcceptsWithin(listing, choice) ==
    /\ selected' # NoOption <=> IntOf(choice) < Len(listing)
    /\ selected' # NoOption => selected'.selected = listing[IntOf(choice) + 1]

\* C8: one render gives one option per entry of the pre-order listing of the
\* Document, numbered 0..n-1 without gaps, and a numeral i is accepted as a
\* selection exactly when i < n, resolving to the i-th entry of that order
RenderedInOrder ==
    [][/\ status' = "running" => ShowsListing(Listing(Top(stack').data), options', option_index')
       /\ (status = "running" /\ trace' # <<>> /\ trace'[1].op = "choice"
           /\ IsDigit(trace'[1].arg)) =>
             AcceptsWithin(Listing(Top(stack).data), trace'[1].arg)]_vars

\* the station of a nested group was selected by its number, written 04
NestedStationSelected ==
    /\ status = "running"
    /\ LastChoice = <<"0", "4">>
    /\ Len(options) = 6
    /\ selected = options[5]
    /\ selected.parent_group = options[4].selected

\* the step called the launcher of selected_url, once, and nothing else: the
\* media launcher for a media url, the browser for another, none without url;
\* nothing was loaded and history, the cache and the page shown are unchanged
LaunchedOnly(selected_url) ==
    /\ Tail(trace') =
          (IF selected_url = <<>> THEN <<>>
           ELSE IF IsMedia(selected_url) THEN <<Event("open_in_vlc", selected_url)>>
           ELSE <<Event("webbrowser.open", selected_url)>>)
    /\ ld_last' = NoLoad
    /\ history' = history
    /\ cache' = cache
    /\ status' = "running"
    /\ stack' = stack
    /\ options' = options
    /\ option_index' = option_index

\* selected_url is dispatched to a launcher or to none
LaunchLeaves(selected_url) == ~IsSubDocument(selected_url) => LaunchedOnly(selected_url)

\* C9: a selection classified as media calls the media launcher once with the
\* rewritten url, one classified as web page calls the browser launcher once, and
\* one without url calls neither; in all three nothing is loaded and history, the
\* cache and the page shown are unchanged
LaunchLeavesPage ==
    [][(status = "running" /\ selected' # NoOption)
       => LaunchLeaves(RewriteAlias(UrlOf(selected'.selected)))]_vars

\* a media station was selected and the media launcher called with its url
MediaLaunched ==
    /\ status = "running"
    /\ selected # NoOption
    /\ trace = <<Event("choice", <<"1">>), Event("open_in_vlc", UrlMedia)>>

\* the session ended at the first load, before any page was shown
RootLoadFailed == ld_last.url = default_url /\ ~Truthy(ld_last.data) /\ history = <<>>

\* C13: once the root page has been shown, the session is over only when q was
\* entered; before that, only when the load of the root failed.  No load made by a
\* selection or by a back command ends it
EndsOnlyOnQuit == status \notin {"init", "running"} => LastChoice = <<"q">> \/ RootLoadFailed

\* C16: a back command with more than one entry in history whose reload succeeds
\* leaves history without its last entry, the url of the page then shown last
BackPopsOne ==
    [][(/\ status = "running"
        /\ Len(history) > 1
        /\ ReadBack
        /\ ld_last'.data # NoneValue)
       => /\ history' = SubSeq(history, 1, Len(history) - 1)
          /\ status' = "running"
          /\ Top(stack').url = history'[Len(history')]
          /\ Top(stack').url = ld_last'.url]_vars

\* b on a page two selections below the root showed the page one selection below
BackReloadedParent ==
    /\ status = "running"
    /\ LastChoice = <<"b">>
    /\ ld_last.data # NoneValue
    /\ history = <<default_url, UrlPasteRaw>>
    /\ Top(stack).url = UrlPasteRaw

\* C19: whenever a page is shown and input awaited, history is not empty and its
\* last entry is the url of the page shown
HistoryEndsAtPage ==
    status = "running" => history # <<>> /\ history[Len(history)] = Top(stack).url

\* C20: when the load made for a selected sub-document returns a Document, its url
\* is the last of history and the Document is the page shown, whatever it holds
LoadedDocumentShown ==
    (selected # NoOption /\ ld_last.url # <<>> /\ ld_last.data # NoneValue)
    => /\ status = "running"
       /\ history # <<>>
       /\ history[Len(history)] = ld_last.url
       /\ Top(stack).url = ld_last.url
       /\ Top(stack).data = ld_last.data

====
